---- MODULE Spec2Model ----
(***************************************************************************)
(* The conversational agent loop of hoodie: the LangGraph state graph of   *)
(* graph/graph.py (chat_node -> approval -> tools -> chat_node), its three *)
(* nodes and the routing function, driven turn by turn by test.py.         *)
(*                                                                         *)
(* The persisted conversation state (the checkpoint of one thread id) is   *)
(* messages, approved and pc (the node that runs next).  The remaining     *)
(* variables record what the collaborators saw: the history handed to the  *)
(* model, the human's last answer, the calls the tool node dispatched.     *)
(***************************************************************************)
EXTENDS Integers, Sequences, FiniteSets, TLC

VARIABLES
    messages,    \* state["messages"]: the persisted history
    approved,    \* state["approved"]: "unset" (key absent), "True", "False"
    pc,          \* "START", "chat_node", "approval", "tools", "END", "ERROR"
    prev,        \* the stage that ran immediately before pc
    llm_input,   \* the message list of the last llm.ainvoke call
    llm_calls,   \* the number of llm.ainvoke calls made in the current turn
    initialized, \* test.py:46  whether the system prompt has been sent
    decision,    \* the last recognised answer of the human and the message it was for
    prompts,     \* unrecognised answers given at the current approval prompt
    executed,    \* the tool calls the tool node dispatched last, and their message
    node_tools,  \* graph.py:13-15  the tools the tool node was built with
    bound_tools, \* gptModel.py:35-37  the tools bound to the model
    builds,      \* the number of registries get_tools() has built in this process
    thread_id,   \* test.py:45, 67  the thread whose turn is running
    storage,     \* graph.py:17  the state of the threads that are not running
    request,     \* the tool call a tool-provider server has received
    result       \* what the server's call_tool handler did with it

vars == <<messages, approved, pc, prev, llm_input, llm_calls, initialized, decision, prompts, executed,
          node_tools, bound_tools, builds, thread_id, storage, request, result>>

----------------------------------------------------------------------------
(* Bounds *)

\* the longest persisted history explored
MaxMsgs == 6
\* the largest batch of tool calls in one assistant message
MaxCalls == 2
\* the most unrecognised answers typed at one approval prompt
MaxPrompts == 2

\* the longest history of a thread when turns run on two thread ids
MaxThreadMsgs == 5

\* the bound on the history of the running thread
HistoryBound == IF DOMAIN storage = {} THEN MaxMsgs ELSE MaxThreadMsgs

(* Program constants *)

\* chat_node.py:18  max_tokens=50000
max_tokens == 50000

----------------------------------------------------------------------------
(* Messages *)

NoId == <<>>

Message(type, content, tool_calls, tool_call_id, tokens) ==
    [type |-> type, content |-> content, tool_calls |-> tool_calls,
     tool_call_id |-> tool_call_id, tokens |-> tokens]

\* test.py:15  SYSTEM_PROMPT
SYSTEM_PROMPT == Message("system", "system_prompt", <<>>, NoId, 10000)

\* test.py:56  HumanMessage(content=question)
HumanMessage(tokens) == Message("human", "question", <<>>, NoId, tokens)

\* the token counts of the questions the caller may ask
QuestionTokens == {10000, 30000}

\* the sizes of the questions asked in a run: both sizes on one thread id,
\* one size where the turns of two thread ids interleave
AskedTokens == IF DOMAIN storage = {} THEN QuestionTokens ELSE {10000}

\* an assistant message as the model returns it
AIMessage(content, tool_calls) == Message("ai", content, tool_calls, NoId, 10000)

\* a tool result as the tool node builds it; a tool's output is the longer text
ToolMessage(content, tool_call_id) ==
    Message("tool", content, <<>>, tool_call_id, IF content = "output" THEN 20000 ELSE 10000)

\* chat_node.py:26
DENIED_1 == AIMessage("rejected_answer_without_tools", <<>>)
\* chat_node.py:32
DENIED_2 == AIMessage("rejected_answer_without_tools_or_sorry", <<>>)

\* tools.py:17-34: the static tool and the tools the MCP servers declare
Registry == {"execute_command", "list_files"}

\* the tool names a model may put in a tool call ("frobnicate" is not registered)
ToolNames == {"execute_command", "frobnicate"}

\* tools.py:18-30: the tools get_tools() lists itself
static_tools == <<"execute_command">>

\* tools.py:32, mcpToolsRegistery.py:6-8, loader.py:21-24: the tool names the
\* configured servers may answer with when they are asked for their tools
Discoveries == { <<"list_files">>, <<"execute_command", "list_files">> }

\* tools.py:17-34
get_tools(discovered) == static_tools \o discovered

\* no registry has been built
NotBuilt == <<>>

\* the arguments of a tool call that has none
None == [dict |-> FALSE, keys |-> {}]

\* no tool call has reached a server, and no handler has run
NoRequest == [server |-> "none", name |-> "none", arguments |-> None, outcome |-> "ok"]
NoResult == [status |-> "pending", raised |-> "none", returned |-> <<>>]

RECURSIVE SeqsUpTo(_, _)
SeqsUpTo(S, n) ==
    IF n = 0 THEN {<<>>}
    ELSE LET shorter == SeqsUpTo(S, n - 1)
         IN shorter \cup {Append(s, x) : s \in {t \in shorter : Len(t) = n - 1}, x \in S}

\* the name sequences of the non-empty batches a model may propose
Batches == SeqsUpTo(ToolNames, MaxCalls) \ {<<>>}

\* the tool calls of the assistant message stored at index idx: call ids are unique
ToolCalls(idx, names) == [k \in 1..Len(names) |-> [id |-> <<idx, k>>, name |-> names[k]]]

Last(s) == s[Len(s)]

----------------------------------------------------------------------------
(* The conversation state and its channels *)

\* the state dictionary a node receives
State == [messages |-> messages, approved |-> approved]

\* the reducer of the messages channel: a node's messages are appended
add_messages(left, right) == left \o right

\* a graph whose messages channel has no reducer: a node's return value
\* replaces the channel
apply_writes_overwrite(state, update) ==
    [messages |-> IF "messages" \in DOMAIN update THEN update.messages
                  ELSE state.messages,
     approved |-> IF "approved" \in DOMAIN update THEN update.approved
                  ELSE state.approved]

\* a node returns a partial update; keys it does not return keep their value
apply_writes(state, update) ==
    [messages |-> IF "messages" \in DOMAIN update
                  THEN add_messages(state.messages, update.messages)
                  ELSE state.messages,
     approved |-> IF "approved" \in DOMAIN update
                  THEN update.approved
                  ELSE state.approved]

\* the update of a node that raised: nothing is written
NoWrites == <<>>

----------------------------------------------------------------------------
(* Message History and trimming (chat_node.py:16-22) *)

RECURSIVE token_counter(_)
token_counter(msgs) ==
    IF msgs = <<>> THEN 0 ELSE Head(msgs).tokens + token_counter(Tail(msgs))

\* the last k elements of s
Suffix(s, k) == SubSeq(s, Len(s) - k + 1, Len(s))

SetMax(S) == CHOOSE x \in S : \A y \in S : y <= x

\* trim_messages without include_system: the longest suffix that fits
trim_messages_no_system(msgs, budget) ==
    Suffix(msgs, SetMax({n \in 0..Len(msgs) : token_counter(Suffix(msgs, n)) <= budget}))

\* trim_messages(strategy="last", include_system=True): the leading system
\* message is kept, then the longest suffix of the rest that fits what is left
trim_messages(msgs, budget) ==
    LET hasSystem == msgs # <<>> /\ msgs[1].type = "system"
        system    == IF hasSystem THEN <<msgs[1]>> ELSE <<>>
        rest      == IF hasSystem THEN Tail(msgs) ELSE msgs
        left      == IF budget - token_counter(system) > 0
                     THEN budget - token_counter(system) ELSE 0
        k         == SetMax({n \in 0..Len(rest) : token_counter(Suffix(rest, n)) <= left})
    IN system \o Suffix(rest, k)

----------------------------------------------------------------------------
(* Inference Step (chat_node.py) *)

\* gptModel.py:35-38: the model is returned with the registry's tools bound
get_gptModel == [tools |-> Registry]

\* chat_node.py:11: the model chat_node works with, the same on both branches
get_llm == get_gptModel

\* chat_node.py:11, gptModel.py:35-37: the tool lists the model returned by
\* get_llm() may be bound to.  The model is initialised by the first call and
\* kept; its initialisation builds a registry of its own
get_llm_bound(cached) ==
    IF cached # NotBuilt THEN {cached}
    ELSE {get_tools(d) : d \in Discoveries}

\* chat_node.py:13-33: the message list handed to llm.ainvoke
chat_node_messages(state) ==
    LET trimmed == trim_messages(state.messages, max_tokens)
        first   == IF state.approved = "False" THEN trimmed \o <<DENIED_1>> ELSE trimmed
    IN IF state.approved = "False" THEN first \o <<DENIED_2>> ELSE first

\* what llm.ainvoke may return when its answer is stored at index idx: a text
\* answer, or, when tools are bound, an assistant message with tool calls
llm_ainvoke(llm, idx) ==
    {AIMessage("answer", <<>>)} \cup
    IF llm.tools = {} THEN {}
    ELSE {AIMessage("tool_request", ToolCalls(idx, b)) :
            b \in {c \in Batches : idx + Len(c) + 1 <= HistoryBound}}

\* chat_node_return without the reset of the approval flag
chat_node_return_no_reset(state, response) == [messages |-> <<response>>]

\* chat_node_return writing the denial note to the state as well
chat_node_return_with_note(state, response) ==
    [messages |-> IF state.approved = "False" THEN <<DENIED_2, response>> ELSE <<response>>,
     approved |-> "True"]

\* chat_node_return handing back the trimmed list together with the response
chat_node_return_trimmed(state, response) ==
    [messages |-> Append(trim_messages(state.messages, max_tokens), response),
     approved |-> "True"]

\* chat_node.py:39
chat_node_return(state, response) == [messages |-> <<response>>, approved |-> "True"]

\* chat_node catching the exception and returning an apology instead
chat_node_raise_caught(state) ==
    [messages |-> <<AIMessage("apology", <<>>)>>, approved |-> "True"]

\* chat_node.py:35-37: an exception of llm.ainvoke leaves chat_node without a return
chat_node_raise(state) == NoWrites

\* graph.py:28-35: tools_condition and the edge map of chat_node
tools_condition(state) ==
    LET last == Last(state.messages)
    IN IF last.type = "ai" /\ last.tool_calls # <<>> THEN "tools" ELSE "END"

\* the edge map sending proposed tool calls straight to the tool node
chat_node_edges_no_gate == [tools |-> "tools", END |-> "END"]

chat_node_edges == [tools |-> "approval", END |-> "END"]

----------------------------------------------------------------------------
(* Approval Gate (approval_node.py) *)

\* str.lower on the characters the human may type
lower_char(c) ==
    CASE c = "Y" -> "y" [] c = "E" -> "e" [] c = "S" -> "s"
      [] c = "N" -> "n" [] c = "O" -> "o" [] OTHER -> c

lower(str) == [i \in 1..Len(str) |-> lower_char(str[i])]

RECURSIVE lstrip(_)
lstrip(str) == IF str # <<>> /\ Head(str) = " " THEN lstrip(Tail(str)) ELSE str

RECURSIVE rstrip(_)
rstrip(str) ==
    IF str # <<>> /\ Last(str) = " " THEN rstrip(SubSeq(str, 1, Len(str) - 1)) ELSE str

strip(str) == rstrip(lstrip(str))

\* the lines the human may type at the prompt
Inputs ==
    { <<"y">>, <<" ","Y","E","S"," ">>,
      <<"n">>, <<"N","o"," ">>,
      <<>>, <<"y","e","s","!">> }

Reprompt == [reprompt |-> TRUE]

\* approval_node taking every line that is not a no for a yes
approval_node_default_yes(state, input) ==
    IF Last(state.messages).tool_calls # <<>> /\ strip(lower(input)) \in {<<"n","o">>, <<"n">>}
    THEN [approved |-> "False"]
    ELSE [approved |-> "True"]

\* approval_node returning a note about the decision with the flag
approval_node_with_note(state, input) ==
    LET approval == strip(lower(input))
    IN IF Last(state.messages).tool_calls # <<>>
       THEN IF approval \in {<<"y","e","s">>, <<"y">>}
            THEN [approved |-> "True", messages |-> <<AIMessage("approved_note", <<>>)>>]
            ELSE IF approval \in {<<"n","o">>, <<"n">>}
            THEN [approved |-> "False", messages |-> <<AIMessage("rejected_note", <<>>)>>]
            ELSE Reprompt
       ELSE [approved |-> "True", messages |-> <<AIMessage("approved_note", <<>>)>>]

\* a gate that asks the human whatever the last message is
approval_node_always_asks(state, input) ==
    LET approval == strip(lower(input))
    IN IF approval \in {<<"y","e","s">>, <<"y">>} THEN [approved |-> "True"]
       ELSE IF approval \in {<<"n","o">>, <<"n">>} THEN [approved |-> "False"]
       ELSE Reprompt

\* approval_node.py:8-27 for one line of input
approval_node(state, input) ==
    LET last_message == Last(state.messages)
        approval     == strip(lower(input))
    IN IF last_message.tool_calls # <<>>
       THEN IF approval \in {<<"y","e","s">>, <<"y">>} THEN [approved |-> "True"]
            ELSE IF approval \in {<<"n","o">>, <<"n">>} THEN [approved |-> "False"]
            ELSE Reprompt
       ELSE [approved |-> "True"]

\* routing that ignores the decision
route_always_tools(state) == "tools"

\* routing.py:4-9
route_after_approval(state) ==
    IF state.approved = "True" THEN "tools" ELSE "chat_node"

\* a graph whose edge for a rejection leads back to the gate
approval_edges_back_to_gate == [tools |-> "tools", chat_node |-> "approval"]

\* graph.py:38-45
approval_edges == [tools |-> "tools", chat_node |-> "chat_node"]

----------------------------------------------------------------------------
(* Tool Execution (graph.py:15, the prebuilt tool node) *)

\* what one registered tool may give back
ToolOutcomes == {"output", "error_text"}

\* a tool node that stops after the first call of the batch
tool_node_first_only(state, outcomes) ==
    LET calls == Last(state.messages).tool_calls
    IN [messages |->
          [k \in 1..(IF Len(calls) > 0 THEN 1 ELSE 0) |->
              ToolMessage(IF calls[k].name \in Registry THEN outcomes[k]
                          ELSE "error_not_a_valid_tool",
                          calls[k].id)]]

\* a tool node that passes over calls naming a tool it does not know
tool_node_skip_unknown(state, outcomes) ==
    LET calls == Last(state.messages).tool_calls
        known == SelectSeq([k \in 1..Len(calls) |-> k],
                           LAMBDA k : calls[k].name \in Registry)
    IN [messages |->
          [j \in 1..Len(known) |-> ToolMessage(outcomes[known[j]], calls[known[j]].id)]]

\* a tool node that gives no result for a tool that failed
tool_node_drop_failed(state, outcomes) ==
    LET calls == Last(state.messages).tool_calls
        done  == SelectSeq([k \in 1..Len(calls) |-> k],
                           LAMBDA k : calls[k].name \in Registry /\ outcomes[k] = "output")
    IN [messages |->
          [j \in 1..Len(done) |-> ToolMessage("output", calls[done[j]].id)]]

\* the tool calls of msgs[i..] that have no tool result in msgs
RECURSIVE UnansweredCalls(_, _)
UnansweredCalls(msgs, i) ==
    IF i > Len(msgs) THEN <<>>
    ELSE LET answered(call) ==
                 \E j \in 1..Len(msgs) :
                    msgs[j].type = "tool" /\ msgs[j].tool_call_id = call.id
         IN SelectSeq(msgs[i].tool_calls, LAMBDA call : ~answered(call))
               \o UnansweredCalls(msgs, i + 1)

\* a tool node that runs every tool call of the history that has no result
\* yet, those of earlier assistant messages included
tool_node_unanswered(state, outcomes) ==
    LET calls == UnansweredCalls(state.messages, 1)
    IN [messages |->
          [k \in 1..Len(calls) |->
              ToolMessage(IF calls[k].name \in Registry THEN "output"
                          ELSE "error_not_a_valid_tool",
                          calls[k].id)]]

\* one ToolMessage per tool call of the last assistant message, in order
tool_node(state, outcomes) ==
    LET calls == Last(state.messages).tool_calls
    IN [messages |->
          [k \in 1..Len(calls) |->
              ToolMessage(IF calls[k].name \in Registry THEN outcomes[k]
                          ELSE "error_not_a_valid_tool",
                          calls[k].id)]]

----------------------------------------------------------------------------
(* The turns of one thread (test.py:48-75) and the steps of the graph *)

Init ==
    /\ messages = <<>>
    /\ approved = "unset"
    /\ pc = "START"
    /\ prev = "none"
    /\ llm_input = <<>>
    /\ llm_calls = 0
    /\ initialized = FALSE
    /\ decision = [msg |-> 0, input |-> <<>>]
    /\ prompts = 0
    /\ executed = [msg |-> 0, calls |-> <<>>]
    /\ node_tools = get_tools(<<"list_files">>)
    /\ bound_tools = get_tools(<<"list_files">>)
    /\ builds = 2
    /\ thread_id = "test-thread"
    /\ storage = <<>>
    /\ request = NoRequest
    /\ result = NoResult

\* a caller that sends the system prompt with every question
ainvoke_always_system ==
    /\ pc \in {"START", "END", "ERROR"}
    /\ \E t \in AskedTokens :
          LET input == <<SYSTEM_PROMPT, HumanMessage(t)>>
              next  == apply_writes(State, [messages |-> input])
          IN /\ Len(messages) + Len(input) + 1 <= HistoryBound + 1
             /\ messages' = next.messages
             /\ approved' = next.approved
    /\ initialized' = TRUE
    /\ pc' = "chat_node"
    /\ prev' = "START"
    /\ llm_calls' = 0
    /\ UNCHANGED <<llm_input, decision, prompts, executed, node_tools, bound_tools, builds, thread_id, storage,
                   request, result>>

\* test.py:53-68: chatbot.ainvoke with the next question; the input is written
\* to the thread's state and the graph starts at chat_node
ainvoke ==
    /\ pc \in {"START", "END", "ERROR"}
    /\ \E t \in AskedTokens :
          LET input == IF ~initialized THEN <<SYSTEM_PROMPT, HumanMessage(t)>>
                       ELSE <<HumanMessage(t)>>
              next  == apply_writes(State, [messages |-> input])
          IN /\ Len(messages) + Len(input) + 1 <= HistoryBound
             /\ messages' = next.messages
             /\ approved' = next.approved
    /\ initialized' = TRUE
    /\ pc' = "chat_node"
    /\ prev' = "START"
    /\ llm_calls' = 0
    /\ UNCHANGED <<llm_input, decision, prompts, executed, node_tools, bound_tools, builds, thread_id, storage,
                   request, result>>

\* chat_node returns the model's response
ChatNode ==
    /\ pc = "chat_node"
    /\ \E response \in llm_ainvoke(get_llm, Len(messages) + 1) :
          LET next == apply_writes(State, chat_node_return(State, response))
          IN /\ messages' = next.messages
             /\ approved' = next.approved
             /\ pc' = chat_node_edges[tools_condition(next)]
    /\ llm_input' = chat_node_messages(State)
    /\ llm_calls' = llm_calls + 1
    /\ prev' = "chat_node"
    /\ \E bound \in get_llm_bound(bound_tools) :
          /\ bound_tools' = bound
          /\ builds' = IF bound_tools = NotBuilt THEN builds + 1 ELSE builds
    /\ UNCHANGED <<initialized, decision, prompts, executed, node_tools, thread_id, storage,
                   request, result>>

\* llm.ainvoke raises: the exception leaves the graph and test.py reports it
ChatNodeRaise ==
    /\ pc = "chat_node"
    /\ LET next == apply_writes(State, chat_node_raise(State))
       IN /\ messages' = next.messages
          /\ approved' = next.approved
    /\ llm_input' = chat_node_messages(State)
    /\ llm_calls' = llm_calls + 1
    /\ pc' = "ERROR"
    /\ prev' = "chat_node"
    /\ \E bound \in get_llm_bound(bound_tools) :
          /\ bound_tools' = bound
          /\ builds' = IF bound_tools = NotBuilt THEN builds + 1 ELSE builds
    /\ UNCHANGED <<initialized, decision, prompts, executed, node_tools, thread_id, storage,
                   request, result>>

\* approval_node returns: the human answered the prompt with a line it accepts,
\* or there was no tool call to ask about
Approval ==
    /\ pc = "approval"
    /\ \E input \in Inputs :
          LET update == approval_node(State, input)
              next   == apply_writes(State, update)
          IN /\ update # Reprompt
             /\ messages' = next.messages
             /\ approved' = next.approved
             /\ pc' = approval_edges[route_after_approval(next)]
             /\ decision' = IF Last(messages).tool_calls # <<>>
                          THEN [msg |-> Len(messages), input |-> input]
                          ELSE decision
    /\ prev' = "approval"
    /\ prompts' = 0
    /\ UNCHANGED <<llm_input, llm_calls, initialized, executed, node_tools, bound_tools, builds, thread_id, storage,
                   request, result>>

\* the human types something else: approval_node prints the hint and asks again
ApprovalReprompt ==
    /\ pc = "approval"
    /\ prompts < MaxPrompts
    /\ \E input \in Inputs : approval_node(State, input) = Reprompt
    /\ prompts' = prompts + 1
    /\ UNCHANGED <<messages, approved, pc, prev, llm_input, llm_calls, initialized,
                   decision, executed, node_tools, bound_tools, builds, thread_id, storage,
                   request, result>>

\* the tool node runs every tool call of the last message; graph.py:47
Tools ==
    /\ pc = "tools"
    /\ LET calls == Last(messages).tool_calls
       IN /\ \E outcomes \in [1..Len(calls) -> ToolOutcomes] :
                LET next == apply_writes(State, tool_node(State, outcomes))
                IN /\ messages' = next.messages
                   /\ approved' = next.approved
          /\ executed' = [msg |-> Len(messages), calls |-> calls]
    /\ pc' = "chat_node"
    /\ prev' = "tools"
    /\ UNCHANGED <<llm_input, llm_calls, initialized, decision, prompts, node_tools, bound_tools, builds, thread_id, storage,
                   request, result>>

Next ==
    \/ ainvoke
    \/ ChatNode
    \/ ChatNodeRaise
    \/ Approval
    \/ ApprovalReprompt
    \/ Tools

Spec == Init /\ [][Next]_vars

----------------------------------------------------------------------------
(* Turns whose collaborators answer *)

\* the steps of a turn in which every call of the model returns
NextLive ==
    \/ ainvoke
    \/ ChatNode
    \/ Approval
    \/ ApprovalReprompt
    \/ Tools

\* every call of the model and of a tool returns, the human gives a recognised
\* answer in the end, and the model answers without tool calls in the end
Fairness ==
    /\ WF_vars(ChatNode)
    /\ WF_vars(Tools)
    /\ WF_vars(Approval)
    /\ SF_vars(ChatNode /\ pc' = "END")

SpecLive == Init /\ [][NextLive]_vars /\ Fairness

----------------------------------------------------------------------------
(* Termination of the process *)

\* graph.py:17: the checkpoints live in a MemorySaver, in the memory of the
\* process.  When the process is killed during a turn they are gone, and a new
\* run of test.py starts from its first question with an empty thread
Terminate ==
    /\ pc \in {"chat_node", "approval", "tools"}
    /\ messages' = <<>>
    /\ approved' = "unset"
    /\ pc' = "START"
    /\ prev' = "none"
    /\ llm_input' = <<>>
    /\ llm_calls' = 0
    /\ initialized' = FALSE
    /\ decision' = [msg |-> 0, input |-> <<>>]
    /\ prompts' = 0
    /\ executed' = [msg |-> 0, calls |-> <<>>]
    /\ UNCHANGED <<node_tools, bound_tools, builds, thread_id, storage,
                   request, result>>

NextCrash ==
    \/ Next
    \/ Terminate

SpecCrash == Init /\ [][NextCrash]_vars

----------------------------------------------------------------------------
(* The nodes applied to arbitrary conversation states *)

\* the longest history the nodes are applied to
MaxHistory == 3

\* the messages such a history is built from
HistoryMessages ==
    { SYSTEM_PROMPT, HumanMessage(30000),
      AIMessage("answer", <<>>),
      AIMessage("tool_request", ToolCalls(0, <<"execute_command">>)),
      ToolMessage("output", <<0, 1>>) }

Histories == SeqsUpTo(HistoryMessages, MaxHistory) \ {<<>>}

InitNodes ==
    /\ messages \in Histories
    /\ approved \in {"unset", "True", "False"}
    /\ pc \in {"chat_node", "approval"}
    /\ prev = "none"
    /\ llm_input = <<>>
    /\ llm_calls = 0
    /\ initialized = TRUE
    /\ decision = [msg |-> 0, input |-> <<>>]
    /\ prompts = 0
    /\ executed = [msg |-> 0, calls |-> <<>>]
    /\ node_tools = get_tools(<<"list_files">>)
    /\ bound_tools = get_tools(<<"list_files">>)
    /\ builds = 2
    /\ thread_id = "test-thread"
    /\ storage = <<>>
    /\ request = NoRequest
    /\ result = NoResult

NextNodes ==
    \/ ChatNode
    \/ ChatNodeRaise
    \/ Approval
    \/ ApprovalReprompt

SpecNodes == InitNodes /\ [][NextNodes]_vars

----------------------------------------------------------------------------
(* The start of the process (test.py:38-46) *)

\* test.py:38 has not yet called get_graph(): nothing is built
InitStartup ==
    /\ messages = <<>>
    /\ approved = "unset"
    /\ pc = "BOOT"
    /\ prev = "none"
    /\ llm_input = <<>>
    /\ llm_calls = 0
    /\ initialized = FALSE
    /\ decision = [msg |-> 0, input |-> <<>>]
    /\ prompts = 0
    /\ executed = [msg |-> 0, calls |-> <<>>]
    /\ node_tools = NotBuilt
    /\ bound_tools = NotBuilt
    /\ builds = 0
    /\ thread_id = "test-thread"
    /\ storage = <<>>
    /\ request = NoRequest
    /\ result = NoResult

\* graph.py:11-51: get_graph() builds a registry, hands it to the tool node and
\* compiles the graph; test.py then waits for the first question
get_graph ==
    /\ pc = "BOOT"
    /\ \E discovered \in Discoveries : node_tools' = get_tools(discovered)
    /\ builds' = builds + 1
    /\ pc' = "START"
    /\ UNCHANGED <<messages, approved, prev, llm_input, llm_calls, initialized,
                   decision, prompts, executed, bound_tools, thread_id, storage,
                   request, result>>

\* graph.py:13, loader.py:23: a server cannot be loaded, get_tools() raises and
\* the exception ends test.py before its loop
get_graph_raise ==
    /\ pc = "BOOT"
    /\ pc' = "FAILED"
    /\ UNCHANGED <<messages, approved, prev, llm_input, llm_calls, initialized,
                   decision, prompts, executed, node_tools, bound_tools, builds, thread_id, storage,
                   request, result>>

\* chat_node.py:11, gptModel.py:9-12, 40-44: the first get_llm() raises (no API
\* key, the model or its tools cannot be initialised); test.py:73-75 reports
\* the exception and asks for the next question
ChatNodeGetLlmRaise ==
    /\ pc = "chat_node"
    /\ bound_tools = NotBuilt
    /\ pc' = "ERROR"
    /\ prev' = "chat_node"
    /\ UNCHANGED <<messages, approved, llm_input, llm_calls, initialized,
                   decision, prompts, executed, node_tools, bound_tools, builds, thread_id, storage,
                   request, result>>

NextStartup ==
    \/ get_graph
    \/ get_graph_raise
    \/ ChatNodeGetLlmRaise
    \/ Next

SpecStartup == InitStartup /\ [][NextStartup]_vars

----------------------------------------------------------------------------
(* Turns on two thread ids *)

\* test.py:45 and a second thread id
ThreadIds == {"test-thread", "other-thread"}

\* the longest history a thread is suspended with
MaxStored == 3

\* the state of the running thread: its checkpoint (messages, approved and
\* the node that runs next) and what its caller and its collaborators hold
Current ==
    [messages |-> messages, approved |-> approved, pc |-> pc, prev |-> prev,
     llm_input |-> llm_input, llm_calls |-> llm_calls,
     initialized |-> initialized, decision |-> decision, prompts |-> prompts,
     executed |-> executed]

\* a thread id that was never invoked
Fresh ==
    [messages |-> <<>>, approved |-> "unset", pc |-> "START", prev |-> "none",
     llm_input |-> <<>>, llm_calls |-> 0, initialized |-> FALSE,
     decision |-> [msg |-> 0, input |-> <<>>], prompts |-> 0,
     executed |-> [msg |-> 0, calls |-> <<>>]]

\* a store with one slot for all thread ids
put_shared(store, tid, checkpoint) ==
    [t \in DOMAIN store \cup {tid} |-> checkpoint]

\* graph.py:17, 49, test.py:67: the checkpointer keeps the state under the
\* thread id of the config
put(store, tid, checkpoint) ==
    [t \in DOMAIN store \cup {tid} |-> IF t = tid THEN checkpoint ELSE store[t]]

get_tuple(store, tid) == store[tid]

InitThreads ==
    /\ messages = <<>>
    /\ approved = "unset"
    /\ pc = "START"
    /\ prev = "none"
    /\ llm_input = <<>>
    /\ llm_calls = 0
    /\ initialized = FALSE
    /\ decision = [msg |-> 0, input |-> <<>>]
    /\ prompts = 0
    /\ executed = [msg |-> 0, calls |-> <<>>]
    /\ node_tools = get_tools(<<"list_files">>)
    /\ bound_tools = get_tools(<<"list_files">>)
    /\ builds = 2
    /\ thread_id = "test-thread"
    /\ storage = [t \in ThreadIds \ {"test-thread"} |-> Fresh]
    /\ request = NoRequest
    /\ result = NoResult

\* the event loop leaves the running thread between two of its stages and
\* runs a stage of another thread: the state of the first stays under its
\* thread id and the state of the second is loaded from under its own
\* (approval_node.py:16-24 has no await: the loop is not left between two
\* prompts of one gate)
Switch ==
    /\ Len(messages) <= MaxStored
    /\ prompts = 0
    /\ \E t \in ThreadIds \ {thread_id} :
          LET saved  == put(storage, thread_id, Current)
              loaded == get_tuple(saved, t)
          IN /\ storage' = [u \in DOMAIN saved \ {t} |-> saved[u]]
             /\ thread_id' = t
             /\ messages' = loaded.messages
             /\ approved' = loaded.approved
             /\ pc' = loaded.pc
             /\ prev' = loaded.prev
             /\ llm_input' = loaded.llm_input
             /\ llm_calls' = loaded.llm_calls
             /\ initialized' = loaded.initialized
             /\ decision' = loaded.decision
             /\ prompts' = loaded.prompts
             /\ executed' = loaded.executed
    /\ UNCHANGED <<node_tools, bound_tools, builds, request, result>>

NextThreads ==
    \/ Switch
    \/ Next

SpecThreads == InitThreads /\ [][NextThreads]_vars

----------------------------------------------------------------------------
(* The call_tool handlers of the tool-provider servers *)

TextContent(text) == [type |-> "text", text |-> text]

\* how the body of a handler ends: with a return value or with an exception
Return(contents) == [status |-> "returned", raised |-> "none", returned |-> contents]
Raise(exception) == [status |-> "raised", raised |-> exception, returned |-> <<>>]

\* the exception classes that derive from Exception
Exceptions ==
    {"KeyError", "TypeError", "AttributeError", "ValueError", "Exception",
     "HTTPStatusError", "ConnectError", "HttpError"}

\* the argument keys the modelled tools read
ArgumentKeys == {"owner", "repo", "file_id"}

\* arguments is a dict with some of the keys, or None
Arguments == {[dict |-> TRUE, keys |-> K] : K \in SUBSET ArgumentKeys} \cup {None}

\* arguments[key]: None is not subscriptable, an absent key is a KeyError
Subscript(arguments, keys) ==
    IF arguments = None THEN "TypeError"
    ELSE IF \E key \in keys : key \notin arguments.keys THEN "KeyError"
    ELSE "none"

\* github_mcp_server.py:39-54: the request succeeds, raise_for_status()
\* raises for an error status, or the connection fails
GithubOutcomes == {"ok", "http_error", "connect_error"}

github_api_request(outcome) ==
    IF outcome = "http_error" THEN "HTTPStatusError"
    ELSE IF outcome = "connect_error" THEN "ConnectError"
    ELSE "none"

GithubNames == {"get_username", "get_specific_repo", "frobnicate"}

\* github_mcp_server.py:347-608: the body of the try statement
github_try(name, arguments, outcome) ==
    IF name = "get_username"
    THEN IF github_api_request(outcome) # "none"
         THEN Raise(github_api_request(outcome))
         ELSE Return(<<TextContent("payload")>>)
    ELSE IF name = "get_specific_repo"
    THEN IF Subscript(arguments, {"owner", "repo"}) # "none"
         THEN Raise(Subscript(arguments, {"owner", "repo"}))
         ELSE IF github_api_request(outcome) # "none"
         THEN Raise(github_api_request(outcome))
         ELSE Return(<<TextContent("payload")>>)
    ELSE Return(<<TextContent("unknown_tool")>>)

\* a handler that catches the errors of the API only
github_call_tool_api_errors_only(name, arguments, outcome) ==
    LET body == github_try(name, arguments, outcome)
    IN IF body.status = "returned" THEN body
       ELSE IF body.raised = "HTTPStatusError"
       THEN Return(<<TextContent("github_api_error")>>)
       ELSE body

\* github_mcp_server.py:342-619
github_call_tool(name, arguments, outcome) ==
    LET body == github_try(name, arguments, outcome)
    IN IF body.status = "returned" THEN body
       ELSE IF body.raised = "HTTPStatusError"
       THEN Return(<<TextContent("github_api_error")>>)
       ELSE IF body.raised \in Exceptions
       THEN Return(<<TextContent("error")>>)
       ELSE body

\* google_drive_mcp_server.py:30-75: the token is valid and the API answers,
\* the API answers with an error, there is no valid token, or there is no
\* credentials file
DriveOutcomes == {"ok", "http_error", "no_token", "no_credentials_file"}

\* google_drive_mcp_server.py:30-52
load_credentials(outcome) ==
    IF outcome \in {"no_token", "no_credentials_file"} THEN "Exception" ELSE "none"

\* google_drive_mcp_server.py:54-72
get_auth_url(outcome) ==
    IF outcome = "no_credentials_file" THEN "Exception" ELSE "none"

DriveNames == {"get_auth_url", "list_files", "read_file", "frobnicate"}

\* google_drive_mcp_server.py:257-428: the body of the try statement
drive_try(name, arguments, outcome) ==
    IF name = "get_auth_url"
    THEN IF get_auth_url(outcome) # "none" THEN Raise(get_auth_url(outcome))
         ELSE Return(<<TextContent("payload")>>)
    ELSE IF name = "list_files"
    THEN IF load_credentials(outcome) # "none" THEN Raise(load_credentials(outcome))
         ELSE IF arguments = None THEN Raise("AttributeError")
         ELSE IF outcome = "http_error" THEN Raise("HttpError")
         ELSE Return(<<TextContent("payload")>>)
    ELSE IF name = "read_file"
    THEN IF load_credentials(outcome) # "none" THEN Raise(load_credentials(outcome))
         ELSE IF Subscript(arguments, {"file_id"}) # "none"
         THEN Raise(Subscript(arguments, {"file_id"}))
         ELSE IF outcome = "http_error" THEN Raise("HttpError")
         ELSE Return(<<TextContent("payload")>>)
    ELSE Raise("ValueError")

\* google_drive_mcp_server.py:255-431
drive_call_tool(name, arguments, outcome) ==
    LET body == drive_try(name, arguments, outcome)
    IN IF body.status = "returned" THEN body
       ELSE IF body.raised \in Exceptions
       THEN Return(<<TextContent("error")>>)
       ELSE body

\* the tool calls a server may receive
Requests ==
    [server : {"github"}, name : GithubNames, arguments : Arguments,
     outcome : GithubOutcomes]
    \cup
    [server : {"drive"}, name : DriveNames, arguments : Arguments,
     outcome : DriveOutcomes]

InitServers ==
    /\ messages = <<>>
    /\ approved = "unset"
    /\ pc = "START"
    /\ prev = "none"
    /\ llm_input = <<>>
    /\ llm_calls = 0
    /\ initialized = FALSE
    /\ decision = [msg |-> 0, input |-> <<>>]
    /\ prompts = 0
    /\ executed = [msg |-> 0, calls |-> <<>>]
    /\ node_tools = get_tools(<<"list_files">>)
    /\ bound_tools = get_tools(<<"list_files">>)
    /\ builds = 2
    /\ thread_id = "test-thread"
    /\ storage = <<>>
    /\ request \in Requests
    /\ result = NoResult

\* the server dispatches the request to its call_tool handler
CallTool ==
    /\ result = NoResult
    /\ result' = IF request.server = "github"
                 THEN github_call_tool(request.name, request.arguments, request.outcome)
                 ELSE drive_call_tool(request.name, request.arguments, request.outcome)
    /\ UNCHANGED <<messages, approved, pc, prev, llm_input, llm_calls, initialized,
                   decision, prompts, executed, node_tools, bound_tools, builds,
                   thread_id, storage, request>>

\* the server receives its next request
Receive ==
    /\ result # NoResult
    /\ request' \in Requests
    /\ result' = NoResult
    /\ UNCHANGED <<messages, approved, pc, prev, llm_input, llm_calls, initialized,
                   decision, prompts, executed, node_tools, bound_tools, builds,
                   thread_id, storage>>

NextServers ==
    \/ CallTool
    \/ Receive

SpecServers == InitServers /\ [][NextServers]_vars

TypeOK ==
    /\ approved \in {"unset", "True", "False"}
    /\ pc \in {"BOOT", "FAILED", "START", "chat_node", "approval", "tools", "END", "ERROR"}
    /\ Len(messages) <= MaxMsgs
    /\ prompts \in 0..MaxPrompts

----------------------------------------------------------------------------
(* Properties *)

\* the index of the latest assistant message of msgs, 0 when there is none
LastAI(msgs) ==
    LET S == {i \in 1..Len(msgs) : msgs[i].type = "ai"}
    IN IF S = {} THEN 0 ELSE SetMax(S)

\* the tool results of msgs that answer the call with this id
ResultsFor(msgs, id) ==
    {j \in 1..Len(msgs) : msgs[j].type = "tool" /\ msgs[j].tool_call_id = id}

\* the tool calls of the latest assistant message that do not have exactly one result
Unresolved(msgs) ==
    LET i == LastAI(msgs)
    IN IF i = 0 THEN {}
       ELSE {k \in 1..Len(msgs[i].tool_calls) :
               Cardinality(ResultsFor(msgs, msgs[i].tool_calls[k].id)) # 1}

\* the typed lines that mean yes, and those that mean no
YesInputs == {<<"y">>, <<" ","Y","E","S"," ">>}
NoInputs == {<<"n">>, <<"N","o"," ">>}

DenialNotes == {DENIED_1, DENIED_2}

Contains(msgs, S) == \E i \in 1..Len(msgs) : msgs[i] \in S

\* a chat_node step that returned a response
InferenceDone == pc = "chat_node" /\ pc' \in {"approval", "END"}

\* C1: the tool node runs the tool calls of an assistant message only when the
\* human's last recognised answer was a yes given for that same message
C1_ToolsOnlyAfterApproval ==
    [][executed' # executed =>
         /\ decision.msg = executed'.msg
         /\ decision.input \in YesInputs
         /\ executed'.calls = messages[decision.msg].tool_calls]_vars

C1_Witness ==
    /\ executed.msg # 0
    /\ decision.msg = executed.msg
    /\ prev = "tools"

\* C2: whenever chat_node is about to run, every tool call of the latest
\* assistant message has exactly one tool result with its call id
C2_PairedBeforeInference == pc = "chat_node" => Unresolved(messages) = {}

\* C3: the inference that follows a rejection appends an assistant message
\* without tool calls and the turn ends there
C3_TextOnlyAfterRejection ==
    [][(InferenceDone /\ prev = "approval" /\ approved = "False") =>
         (Last(messages').tool_calls = <<>> /\ pc' = "END")]_vars

\* C4: route returns "tools" exactly when approved is true and the latest
\* assistant message has a tool call without a result
C4_RouteIffApprovedAndUnresolved ==
    route_after_approval(State) = "tools" <=>
        (approved = "True" /\ Unresolved(messages) # {})

\* C5: the stages follow START -> chat_node -> (END | approval),
\* approval -> (tools | chat_node), tools -> chat_node, and approval is
\* entered only with an assistant message carrying tool calls last
C5_StageTransitions ==
    [][/\ pc \in {"START", "END", "ERROR"} => pc' = "chat_node" /\ prev' = "START"
       /\ pc = "chat_node" =>
            \/ pc' = "END" /\ Last(messages').tool_calls = <<>>
            \/ pc' = "approval" /\ Last(messages').tool_calls # <<>>
            \/ pc' = "ERROR"
       /\ pc = "approval" =>
            \/ pc' = "approval" /\ approved' = approved
            \/ pc' = "tools" /\ decision'.input \in YesInputs
            \/ pc' = "chat_node" /\ decision'.input \in NoInputs
       /\ pc = "tools" => pc' = "chat_node"
       /\ pc' = "approval" =>
            Last(messages').type = "ai" /\ Last(messages').tool_calls # <<>>]_vars

C5_Witness ==
    /\ pc = "chat_node"
    /\ prev = "tools"
    /\ decision.input \in YesInputs

\* C6: with an unanswered tool call in the history, chat_node fails the turn
\* and does not invoke the model
C6_UnmatchedToolCallFails ==
    [][(pc = "chat_node" /\ Unresolved(messages) # {}) =>
         (pc' = "ERROR" /\ llm_calls' = llm_calls)]_vars

\* C7: a chat_node step that returns appends exactly one assistant message
\* and leaves approved true, whatever approved was
C7_InferenceAppendsOneAndResets ==
    [][InferenceDone =>
         /\ Len(messages') = Len(messages) + 1
         /\ SubSeq(messages', 1, Len(messages)) = messages
         /\ Last(messages').type = "ai"
         /\ approved' = "True"]_vars

C7_Witness ==
    /\ pc \in {"approval", "END"}
    /\ prev = "chat_node"
    /\ decision.msg = Len(messages) - 1
    /\ decision.input \in NoInputs
    /\ approved = "True"

\* C8: chat_node sees approved false only when the stage before it was the
\* approval gate
C8_NoStaleRejection ==
    (pc = "chat_node" /\ approved = "False") => prev = "approval"

\* C9: when the model call raises, the turn ends in error with messages and
\* approved as they were, and the caller can start another turn
C9_FailedInferenceWritesNothing ==
    /\ [][(pc = "chat_node" /\ pc' = "ERROR") =>
            (messages' = messages /\ approved' = approved)]_vars
    /\ []((pc = "ERROR" /\ Len(messages) + 2 <= MaxMsgs) => ENABLED ainvoke)

\* a turn that ended normally after an earlier turn had failed at its first
\* inference (two questions in a row)
C9_Witness ==
    /\ pc = "END"
    /\ \E i \in 1..(Len(messages) - 1) :
          messages[i].type = "human" /\ messages[i + 1].type = "human"

\* C10: on the rejected branch the denial note is in the list given to the
\* model, and the state grows by the model's response alone, without the note
C10_DenialNoteNotPersisted ==
    /\ [][(InferenceDone /\ approved = "False") =>
            /\ Contains(llm_input', DenialNotes)
            /\ messages' = Append(messages, Last(messages'))
            /\ Last(messages') \in llm_ainvoke(get_llm, Len(messages) + 1)]_vars
    /\ [](~Contains(messages, DenialNotes))

C10_Witness ==
    /\ pc \in {"approval", "END"}
    /\ prev = "chat_node"
    /\ Contains(llm_input, DenialNotes)
    /\ decision.msg = Len(messages) - 1
    /\ decision.input \in NoInputs

\* C11: with tool calls pending, the gate stores True only for a line that is
\* yes or y and False only for one that is no or n once stripped and lowered;
\* every other line leaves the gate waiting with nothing decided
C11_OnlyRecognisedAnswersDecide ==
    /\ [](pc = "approval" /\ Last(messages).tool_calls # <<>> =>
            \A input \in Inputs :
               /\ input \in YesInputs <=> approval_node(State, input) = [approved |-> "True"]
               /\ input \in NoInputs <=> approval_node(State, input) = [approved |-> "False"]
               /\ input \notin YesInputs \cup NoInputs <=>
                     approval_node(State, input) = Reprompt)
    /\ [][pc = "approval" =>
            \/ /\ pc' = "tools" /\ approved' = "True"
               /\ decision'.input \in YesInputs /\ decision'.msg = Len(messages)
            \/ /\ pc' = "chat_node" /\ approved' = "False"
               /\ decision'.input \in NoInputs /\ decision'.msg = Len(messages)
            \/ /\ pc' = "approval" /\ prompts' = prompts + 1
               /\ approved' = approved /\ decision' = decision]_vars

\* the human has typed two unrecognised lines and the gate still waits, with
\* no answer recorded for the pending message
C11_Witness ==
    /\ pc = "approval"
    /\ prompts > 1
    /\ decision.msg # Len(messages)
    /\ Last(messages).tool_calls # <<>>

\* C12: a step of the approval gate leaves messages as they were, whether the
\* human approved, rejected, typed something else or was not asked at all
C12_GateKeepsMessages ==
    [][pc = "approval" => messages' = messages]_vars

\* the gate returned without asking: the last message carries no tool call
C12_Witness ==
    /\ prev = "approval"
    /\ pc = "tools"
    /\ Last(messages).tool_calls = <<>>
    /\ approved = "True"
    /\ decision.msg = 0

\* C13: from a gate that waits with tool calls pending, the persisted history
\* keeps those calls and the run goes on only through the gate, with an answer
\* of the human for that message: a termination in between changes neither
C13_GateReenteredAfterTermination ==
    [][(pc = "approval" /\ Last(messages).tool_calls # <<>>) =>
         /\ messages' = messages
         /\ pc' = "approval" \/ decision'.msg = Len(messages)]_vars

\* the messages a step appends
NewMessages == SubSeq(messages', Len(messages) + 1, Len(messages'))

C15_UnknownToolBecomesErrorText ==
    /\ [][executed' # executed =>
            LET calls == executed'.calls
            IN /\ Len(NewMessages) = Len(calls)
               /\ \A k \in 1..Len(calls) :
                     /\ NewMessages[k].tool_call_id = calls[k].id
                     /\ IF calls[k].name \in Registry
                        THEN NewMessages[k].content \in ToolOutcomes
                        ELSE NewMessages[k].content = "error_not_a_valid_tool"]_vars
    /\ []((pc = "chat_node" /\ prev = "tools") =>
            (Unresolved(messages) = {} /\ ENABLED ChatNode))

\* chat_node answered after a batch holding an unknown tool and a tool that ran
C15_Witness ==
    /\ prev = "chat_node"
    /\ pc \in {"approval", "END"}
    /\ Len(messages) > 3
    /\ messages[Len(messages) - 1].content = "output"
    /\ messages[Len(messages) - 2].content = "error_not_a_valid_tool"
    /\ llm_input[Len(llm_input) - 1] = messages[Len(messages) - 2]

\* the number of tool calls of the message at index i that have a result
Answered(msgs, i) ==
    Cardinality({k \in 1..Len(msgs[i].tool_calls) :
                    ResultsFor(msgs, msgs[i].tool_calls[k].id) # {}})

\* C16: in every persisted state each assistant message has results for all of
\* its tool calls or for none of them
C16_NoPartialBatch ==
    \A i \in 1..Len(messages) :
        Answered(messages, i) \in {0, Len(messages[i].tool_calls)}

\* a batch of two calls with both results in the history
C16_Witness ==
    \E i \in 1..Len(messages) :
        Len(messages[i].tool_calls) = 2 /\ Answered(messages, i) = 2

\* a tool call of msgs and its result are both in view or both left out
PairsKept(msgs, view) ==
    \A i, j \in 1..Len(msgs) :
        (/\ msgs[j].type = "tool"
         /\ \E k \in 1..Len(msgs[i].tool_calls) :
               msgs[i].tool_calls[k].id = msgs[j].tool_call_id) =>
            (Contains(view, {msgs[i]}) <=> Contains(view, {msgs[j]}))

\* C17: the list chat_node gave to the model never holds a tool result without
\* the assistant message that called it, nor the reverse
C17_TrimKeepsPairs ==
    prev = "chat_node" => PairsKept(messages, llm_input)

\* the budgets trimming is tried with, the program's own among them
Budgets == {0, 5000, 20000, max_tokens}

IsSystem(m) == m.type = "system"

\* C18: for every budget the trimmed view of a history that starts with a
\* system message starts with that message, a view holds a system message only
\* if the history does, and what follows is a suffix of the history; so does
\* the list chat_node gives to the model
C18_TrimKeepsSystemFirst ==
    /\ \A B \in Budgets :
          LET view == trim_messages(messages, B)
          IN /\ IsSystem(messages[1]) =>
                  /\ view # <<>>
                  /\ view[1] = messages[1]
                  /\ \E k \in 0..(Len(messages) - 1) :
                        Tail(view) = Suffix(Tail(messages), k)
             /\ ~IsSystem(messages[1]) =>
                  \E k \in 0..Len(messages) : view = Suffix(messages, k)
             /\ (\E i \in 1..Len(view) : IsSystem(view[i])) =>
                  (\E i \in 1..Len(messages) : IsSystem(messages[i]))
    /\ (prev = "chat_node" /\ IsSystem(messages[1])) => llm_input[1] = messages[1]

\* chat_node ran on a history with a leading system message that did not fit:
\* the model got the system message and less than the rest
C18_Witness ==
    /\ prev = "chat_node"
    /\ pc = "END"
    /\ IsSystem(messages[1])
    /\ llm_input[1] = messages[1]
    /\ Len(llm_input) < Len(messages) - 1

\* C19: the list chat_node gives to the model counts at most max_tokens tokens
C19_ViewWithinBudget ==
    prev = "chat_node" => token_counter(llm_input) <= max_tokens

\* C20: a chat_node step on a history that does not fit the budget keeps every
\* persisted message and appends the response alone, while the model got less
C20_TrimLeavesStateWhole ==
    [][(InferenceDone /\ token_counter(messages) > max_tokens) =>
         /\ messages' = Append(messages, Last(messages'))
         /\ Last(messages') \in llm_ainvoke(get_llm, Len(messages) + 1)
         /\ Len(SelectSeq(llm_input', LAMBDA m : m \notin DenialNotes)) < Len(messages)]_vars

\* chat_node answered on a history that was over the budget
C20_Witness ==
    /\ prev = "chat_node"
    /\ pc \in {"approval", "END"}
    /\ token_counter(SubSeq(messages, 1, Len(messages) - 1)) > max_tokens
    /\ Len(llm_input) < Len(messages) - 1

----------------------------------------------------------------------------
(* The persisted record *)

IsPrefix(s, t) == Len(s) <= Len(t) /\ SubSeq(t, 1, Len(s)) = s

----------------------------------------------------------------------------
(* The tool registry and the start of the process *)

NoDuplicates(tools) ==
    \A i, j \in 1..Len(tools) : i # j => tools[i] # tools[j]

\* C22: building the registry fails, before any turn is accepted, whenever a
\* discovered tool has the name of a static tool: a registry that was built,
\* for the tool node or for the model, never holds two tools of one name
C22_CollidingRegistryRejected ==
    /\ node_tools # NotBuilt => NoDuplicates(node_tools)
    /\ bound_tools # NotBuilt => NoDuplicates(bound_tools)
Range(f) == {f[x] : x \in DOMAIN f}

\* C23: the registry is built once in the process and does not change while a
\* conversation runs: the tools bound to the model are the tools the tool
\* node dispatches against
C23_RegistryBuiltOnce ==
    /\ builds <= 1
    /\ (node_tools # NotBuilt /\ bound_tools # NotBuilt)
          => Range(bound_tools) = Range(node_tools)
----------------------------------------------------------------------------
(* Checkpoints *)

\* C25: the state is persisted after every completed stage, so whatever
\* happens while a stage of a turn is due, either that stage runs (and becomes
\* the stage that ran last) or the thread is still what the last completed
\* stage left: the same messages and approved flag, with the same stage due
C25_ResumesAfterLastCompletedStage ==
    [][(pc \in {"chat_node", "approval", "tools"}) =>
          \/ prev' = pc
          \/ (pc' = pc /\ messages' = messages /\ approved' = approved)]_vars
----------------------------------------------------------------------------
(* Failures of the start *)

\* C27: the failures of the start are raised before a turn is accepted: no
\* Inference Step is due in any turn unless the model and the registry were
\* initialised before
C27_InitialisedBeforeInference ==
    pc = "chat_node" => (node_tools # NotBuilt /\ bound_tools # NotBuilt)
----------------------------------------------------------------------------
(* The gate without tool calls *)

\* C29: when the latest message carries no tool calls the gate returns
\* approved at once: the step that leaves it sets approved, no line of the
\* human is asked for, none is answered with the hint, none is recorded
C29_NoToolCallsNoPrompt ==
    [][(pc = "approval" /\ Last(messages).tool_calls = <<>>) =>
          /\ pc' # "approval"
          /\ approved' = "True"
          /\ prompts' = prompts
          /\ decision' = decision]_vars

\* the gate was entered on a message that is not a request of the model and has
\* let the run through with no answer on record
C29_Witness ==
    /\ prev = "approval"
    /\ Last(messages).type \in {"human", "tool", "system"}
    /\ approved = "True"
    /\ decision.input = <<>>
    /\ prompts = 0
----------------------------------------------------------------------------
(* The history handed to the model *)

\* C30: at an Inference Step that follows a rejection the model is called with
\* the trimmed history followed by exactly one denial note; at every other
\* Inference Step it is called with exactly the trimmed history
C30_ExactlyOneDenialNote ==
    [][(pc = "chat_node" /\ llm_calls' = llm_calls + 1) =>
          LET view == trim_messages(messages, max_tokens)
          IN IF approved = "False"
             THEN /\ Len(llm_input') = Len(view) + 1
                  /\ SubSeq(llm_input', 1, Len(view)) = view
                  /\ Last(llm_input') \in DenialNotes
             ELSE llm_input' = view]_vars
----------------------------------------------------------------------------
(* Two thread ids *)

\* the persisted state of thread t, running or not
Persisted(t) ==
    IF t = thread_id THEN [messages |-> messages, approved |-> approved]
    ELSE [messages |-> storage[t].messages, approved |-> storage[t].approved]

----------------------------------------------------------------------------
(* What the tool node executes *)

\* the tool results of msgs that answer a call of message i
ResultsOfMessage(msgs, i) ==
    {j \in 1..Len(msgs) :
        /\ msgs[j].type = "tool"
        /\ \E k \in 1..Len(msgs[i].tool_calls) :
              msgs[j].tool_call_id = msgs[i].tool_calls[k].id}

\* message i asked for tools and the run went on without executing them
Rejected(msgs, i) ==
    /\ i < Len(msgs)
    /\ msgs[i].type = "ai"
    /\ msgs[i].tool_calls # <<>>
    /\ msgs[i + 1].type # "tool"

\* C31: the Tool Execution stage executes exactly the tool calls of the latest
\* assistant message, the one the human has just approved, each once and none
\* skipped; a rejected message is followed by no result, and no tool call of
\* a rejected message is executed at any later step
C31_ExecutesExactlyApprovedCalls ==
    /\ [][(pc = "tools") =>
            LET calls == Last(messages).tool_calls
            IN /\ Len(NewMessages) = Len(calls)
               /\ decision.msg = Len(messages)
               /\ decision.input \in YesInputs
               /\ \A k \in 1..Len(calls) :
                     /\ NewMessages[k].tool_call_id = calls[k].id
                     /\ ResultsFor(messages', calls[k].id) = {Len(messages) + k}]_vars
    /\ []((decision.input \in NoInputs /\ decision.msg < Len(messages))
             => Rejected(messages, decision.msg))
    /\ [](\A i \in 1..Len(messages) :
             Rejected(messages, i) => ResultsOfMessage(messages, i) = {})

\* the human rejected a request, the model asked again, the human approved
\* and the tool node has run the calls of the second request
C31_Witness ==
    /\ prev = "tools"
    /\ \E i \in 1..Len(messages) :
          /\ Rejected(messages, i)
          /\ executed.msg > i
          /\ ResultsOfMessage(messages, executed.msg) # {}
----------------------------------------------------------------------------
(* Successive turns of one thread *)

\* C32: every turn continues from what the turn before it persisted: the
\* question is appended after all earlier messages (with the system prompt in
\* front of it on the first turn only) and nothing else of the state changes,
\* so the history holds exactly one system message, at index 1 of the sequence
C32_TurnsContinueOneSystemMessage ==
    /\ [][(pc \in {"START", "END", "ERROR"}) =>
            /\ IsPrefix(messages, messages')
            /\ approved' = approved
            /\ Last(messages').type = "human"
            /\ IF messages = <<>>
               THEN Len(NewMessages) = 2 /\ NewMessages[1] = SYSTEM_PROMPT
               ELSE Len(NewMessages) = 1]_vars
    /\ [](messages # <<>> =>
            /\ IsSystem(messages[1])
            /\ \A i \in 2..Len(messages) : ~IsSystem(messages[i]))

\* a later turn has been accepted after a turn that ran a tool: its question
\* stands after the messages of the earlier turn
C32_Witness ==
    /\ pc = "chat_node"
    /\ prev = "START"
    /\ Last(messages).type = "human"
    /\ \E i \in 1..Len(messages) : messages[i].type = "tool"
----------------------------------------------------------------------------
(* Termination of a turn *)

----------------------------------------------------------------------------
(* Failures inside the tool-provider servers *)

\* C34: whatever the tool name, the arguments and the outcome of the API or of
\* the credentials, a call_tool handler returns exactly one text result and
\* raises nothing
C34_HandlersReturnOneText ==
    result # NoResult =>
       /\ result.status = "returned"
       /\ Len(result.returned) = 1
       /\ result.returned[1].type = "text"

\* a handler has answered a call that lacks a required argument with an
\* error text
C34_Witness ==
    /\ request.name \in {"get_specific_repo", "read_file"}
    /\ request.outcome = "ok"
    /\ request.arguments = [dict |-> TRUE, keys |-> {}]
    /\ result = Return(<<TextContent("error")>>)
====
